---- MODULE Spec2Model ----
(***************************************************************************)
(* Model of wirepair/algorithms: the three union-find variants             *)
(* (UnionQuickFind, QuickUnionFind, WeightedQuickUnion), the union-find    *)
(* and sort drivers with their token pipeline, and the five sorts.         *)
(* Go slices are modelled as functions over 0..len-1, so that every index  *)
(* in the model is the index the source uses.                              *)
(***************************************************************************)
EXTENDS Integers, Sequences, FiniteSets, TLC

VARIABLES
    ufpc,    \* "new" before Init(N), "ready" after it, "off" in the other specifications
    N,       \* the site count handed to Init
    qf,      \* a UnionQuickFind:     [id, count]
    qu,      \* a QuickUnionFind:     [id, count]     (embeds UnionQuickFind)
    wqu,     \* a WeightedQuickUnion: [id, count, sz] (embeds QuickUnionFind)
    rel,     \* reference partition: the equivalence closure of the pairs passed to Union
    last,    \* the arguments of the latest Union call, or NoCall
    sortpc,  \* "unsorted" before the sort call, "returned" or "panicked" after it, else "off"
    sortType,\* the value of the -s flag
    input,   \* the sequence handed to the sort
    output,  \* the sequence the sort left behind
    sorter,  \* the dynamic type behind the Sorter interface value
    args,    \* the index arguments of the call under examination
    ret,     \* what that call returned
    prog,    \* the program that runs the token pipeline: "unionfind", "sort", else "off"
    ufType,  \* the value of the -u flag
    uf,      \* the union-find driver's engine (what getFinder returned)
    tokens,  \* the tokens of the input the scanner has not been asked for at the start
    pos,     \* how many of them the scanner has returned
    ppc,     \* producer (GetInt / GetString): "scan", "send", "done", "fatal"
    val,     \* the value the producer is sending
    chClosed,\* the channel has been closed
    closes,  \* number of close calls so far
    cpc,     \* consumer (main): "recvP", "recvQ", "done", "panic"
    regP,    \* the p of the pair being read
    received,\* the values the consumer has received, in order
    connCalls,  \* the argument pairs of the Connected calls so far
    unionCalls  \* the argument pairs of the Union calls so far

ufvars == <<ufpc, N, qf, qu, wqu, rel, last>>

sortvars == <<sortpc, sortType, input, output>>

callvars == <<sorter, args, ret>>

pipevars == <<prog, ufType, uf, tokens, pos, ppc, val, chClosed, closes, cpc, regP,
              received, connCalls, unionCalls>>

vars == <<ufvars, sortvars, callvars, pipevars>>

\* ---------------------------------------------------------------- bounds
MaxN == 4

\* short sort inputs: every sequence of at most MaxLen keys out of 1..MaxVal
MaxLen == 5

MaxVal == 3

\* long sort inputs (past mergeSort's cutoff): Cutoff + 2 .. Cutoff + 1 + MaxLong keys
MaxLong == 1

\* merge is tried on every keyed slice of at most MaxMerge elements
MaxMerge == 4

\* the union-find driver on integer input: at most MaxDriverSites sites and
\* MaxDriverTokens integers
MaxDriverSites == 3

MaxDriverTokens == 4

\* partition and quickSort are tried on every range of every slice of at most MaxPart keys
MaxPart == 4

\* the drivers' inputs: a site count of at most MaxSites, then at most MaxTokens tokens
MaxSites == 2

MaxTokens == 3

\* ---------------------------------------------------------------- helpers
EmptyArr == [i \in {} |-> 0]

ArrLen(a) == Cardinality(DOMAIN a)

Sites == 0 .. (N - 1)

NoCall == [p |-> -1, q |-> -1]

\* ------------------------------------------------- UnionQuickFind (quick-find)
\* new(UnionQuickFind): the zero value of the struct
NewUnionQuickFind == [id |-> EmptyArr, count |-> 0]

UnionQuickFind_Init(UF, n) ==
    [UF EXCEPT !.count = n, !.id = [i \in 0 .. (n - 1) |-> i]]

UnionQuickFind_Count(UF) == UF.count

UnionQuickFind_Find(UF, p) == UF.id[p]

\* UF.id[p] with p outside the slice: the run-time bounds check panics
UnionQuickFind_Find_panics(UF, p) == p \notin DOMAIN UF.id

\* Go binds the receiver of a promoted method to the embedded struct, so the
\* Find called here is UnionQuickFind.Find for all three variants.
UnionQuickFind_Connected(UF, p, q) ==
    UnionQuickFind_Find(UF, p) = UnionQuickFind_Find(UF, q)

UnionQuickFind_Connected_panics(UF, p, q) ==
    UnionQuickFind_Find_panics(UF, p) \/ UnionQuickFind_Find_panics(UF, q)

\* a quick-find union that relabels only the site p itself
UnionQuickFind_Union_OnlyP(UF, p, q) ==
    IF UnionQuickFind_Find_panics(UF, p) \/ UnionQuickFind_Find_panics(UF, q)
    THEN UF
    ELSE
    LET rootP == UnionQuickFind_Find(UF, p)
        rootQ == UnionQuickFind_Find(UF, q)
    IN  IF rootP = rootQ
        THEN UF
        ELSE [UF EXCEPT !.id[p] = rootQ, !.count = @ - 1]

\* a quick-find union whose relabelling loop stops one site short
UnionQuickFind_Union_SkipLast(UF, p, q) ==
    IF UnionQuickFind_Find_panics(UF, p) \/ UnionQuickFind_Find_panics(UF, q)
    THEN UF
    ELSE
    LET rootP == UnionQuickFind_Find(UF, p)
        rootQ == UnionQuickFind_Find(UF, q)
    IN  IF rootP = rootQ
        THEN UF
        ELSE [UF EXCEPT
                !.id = [i \in DOMAIN UF.id |->
                          IF UF.id[i] = rootP /\ i < ArrLen(UF.id) - 1
                          THEN rootQ ELSE UF.id[i]],
                !.count = @ - 1]

\* a panic in either Find unwinds Union before its first write
UnionQuickFind_Union(UF, p, q) ==
    IF UnionQuickFind_Find_panics(UF, p) \/ UnionQuickFind_Find_panics(UF, q)
    THEN UF
    ELSE
    LET rootP == UnionQuickFind_Find(UF, p)
        rootQ == UnionQuickFind_Find(UF, q)
    IN  IF rootP = rootQ
        THEN UF
        ELSE [UF EXCEPT
                !.id = [i \in DOMAIN UF.id |->
                          IF UF.id[i] = rootP THEN rootQ ELSE UF.id[i]],
                !.count = @ - 1]

\* ------------------------------------------------- QuickUnionFind (quick-union)
RECURSIVE QuickUnionFind_Find(_, _)
QuickUnionFind_Find(UF, p) ==
    IF p # UF.id[p] THEN QuickUnionFind_Find(UF, UF.id[p]) ELSE p

\* the loop reads UF.id[p] at every step; the first index outside the slice panics
RECURSIVE QuickUnionFind_Find_panics(_, _)
QuickUnionFind_Find_panics(UF, p) ==
    IF p \notin DOMAIN UF.id
    THEN TRUE
    ELSE IF p # UF.id[p] THEN QuickUnionFind_Find_panics(UF, UF.id[p]) ELSE FALSE

\* a quick-union whose count-- comes before the i == j return
QuickUnionFind_Union_CountFirst(UF, p, q) ==
    IF QuickUnionFind_Find_panics(UF, p) \/ QuickUnionFind_Find_panics(UF, q)
    THEN UF
    ELSE
    LET i == QuickUnionFind_Find(UF, p)
        j == QuickUnionFind_Find(UF, q)
    IN  IF i = j
        THEN [UF EXCEPT !.count = @ - 1]
        ELSE [UF EXCEPT !.id[i] = j, !.count = @ - 1]

\* a quick-union that links the parents of p and q instead of their roots
QuickUnionFind_Union_ParentLink(UF, p, q) ==
    IF QuickUnionFind_Find_panics(UF, p) \/ QuickUnionFind_Find_panics(UF, q)
    THEN UF
    ELSE
    LET i == UF.id[p]
        j == UF.id[q]
    IN  IF i = j
        THEN UF
        ELSE [UF EXCEPT !.id[i] = j, !.count = @ - 1]

\* a panic in either Find unwinds Union before its first write
QuickUnionFind_Union(UF, p, q) ==
    IF QuickUnionFind_Find_panics(UF, p) \/ QuickUnionFind_Find_panics(UF, q)
    THEN UF
    ELSE
    LET i == QuickUnionFind_Find(UF, p)
        j == QuickUnionFind_Find(UF, q)
    IN  IF i = j
        THEN UF
        ELSE [UF EXCEPT !.id[i] = j, !.count = @ - 1]

\* QuickUnionFind embeds UnionQuickFind: Init, Count and Connected are the
\* embedded struct's methods, run on the embedded struct.
QuickUnionFind_Init(UF, n) == UnionQuickFind_Init(UF, n)

QuickUnionFind_Count(UF) == UnionQuickFind_Count(UF)

QuickUnionFind_Connected(UF, p, q) == UnionQuickFind_Connected(UF, p, q)

\* ------------------------------------------------- WeightedQuickUnion
NewWeightedQuickUnion == [id |-> EmptyArr, count |-> 0, sz |-> EmptyArr]

WeightedQuickUnion_Init(UF, n) ==
    [UF EXCEPT !.id = [i \in 0 .. (n - 1) |-> i],
               !.sz = [i \in 0 .. (n - 1) |-> 1],
               !.count = n]

\* a weighted union with the size comparison reversed
WeightedQuickUnion_Union_LargerUnder(UF, p, q) ==
    IF QuickUnionFind_Find_panics(UF, p) \/ QuickUnionFind_Find_panics(UF, q)
    THEN UF
    ELSE
    LET i == QuickUnionFind_Find(UF, p)
        j == QuickUnionFind_Find(UF, q)
    IN  IF i = j
        THEN UF
        ELSE IF UF.sz[i] > UF.sz[j]
             THEN [UF EXCEPT !.id[i] = j, !.sz[j] = @ + UF.sz[i], !.count = @ - 1]
             ELSE [UF EXCEPT !.id[j] = i, !.sz[i] = @ + UF.sz[j], !.count = @ - 1]

\* a weighted union that counts the merge before it looks up the roots
WeightedQuickUnion_Union_CountFirst(UF, p, q) ==
    IF QuickUnionFind_Find_panics(UF, p) \/ QuickUnionFind_Find_panics(UF, q)
    THEN [UF EXCEPT !.count = @ - 1]
    ELSE
    LET i == QuickUnionFind_Find(UF, p)
        j == QuickUnionFind_Find(UF, q)
    IN  IF i = j
        THEN UF
        ELSE IF UF.sz[i] < UF.sz[j]
             THEN [UF EXCEPT !.id[i] = j, !.sz[j] = @ + UF.sz[i], !.count = @ - 1]
             ELSE [UF EXCEPT !.id[j] = i, !.sz[i] = @ + UF.sz[j], !.count = @ - 1]

\* a weighted union that counts the absorbed tree as one site
WeightedQuickUnion_Union_SizeOne(UF, p, q) ==
    IF QuickUnionFind_Find_panics(UF, p) \/ QuickUnionFind_Find_panics(UF, q)
    THEN UF
    ELSE
    LET i == QuickUnionFind_Find(UF, p)
        j == QuickUnionFind_Find(UF, q)
    IN  IF i = j
        THEN UF
        ELSE IF UF.sz[i] < UF.sz[j]
             THEN [UF EXCEPT !.id[i] = j, !.sz[j] = @ + 1, !.count = @ - 1]
             ELSE [UF EXCEPT !.id[j] = i, !.sz[i] = @ + 1, !.count = @ - 1]

\* a panic in either Find unwinds Union before its first write
WeightedQuickUnion_Union(UF, p, q) ==
    IF QuickUnionFind_Find_panics(UF, p) \/ QuickUnionFind_Find_panics(UF, q)
    THEN UF
    ELSE
    LET i == QuickUnionFind_Find(UF, p)
        j == QuickUnionFind_Find(UF, q)
    IN  IF i = j
        THEN UF
        ELSE IF UF.sz[i] < UF.sz[j]
             THEN [UF EXCEPT !.id[i] = j, !.sz[j] = @ + UF.sz[i], !.count = @ - 1]
             ELSE [UF EXCEPT !.id[j] = i, !.sz[i] = @ + UF.sz[j], !.count = @ - 1]

\* WeightedQuickUnion embeds QuickUnionFind: Find is QuickUnionFind.Find,
\* Count and Connected are UnionQuickFind's, two levels down.
WeightedQuickUnion_Find(UF, p) == QuickUnionFind_Find(UF, p)

WeightedQuickUnion_Find_panics(UF, p) == QuickUnionFind_Find_panics(UF, p)

WeightedQuickUnion_Count(UF) == UnionQuickFind_Count(UF)

WeightedQuickUnion_Connected(UF, p, q) == UnionQuickFind_Connected(UF, p, q)

\* ------------------------------------------------- reference partition
\* the smallest equivalence relation on S that contains R
RECURSIVE Closure(_, _)
Closure(R, S) ==
    LET step == R \cup {<<a, c>> \in S \X S :
                          \E b \in S : <<a, b>> \in R /\ <<b, c>> \in R}
    IN  IF step = R THEN R ELSE Closure(step, S)

AddPair(R, S, p, q) == Closure(R \cup {<<p, q>>, <<q, p>>}, S)

\* ================================================================ sorting
\* mergeSort's cutoff to insertion sort
Cutoff == 7

\* a sort's outcome: ok is FALSE when an index was out of range (a Go panic)
Ok(a) == [ok |-> TRUE, a |-> a]

Panic(a) == [ok |-> FALSE, a |-> a]

\* the run-time bounds check of s[i], s[j]
InBounds(s, i, j) == i \in DOMAIN s /\ j \in DOMAIN s

\* IntSlice / StringSlice, with keys ordered as the integers are
IntSlice_Len(s) == ArrLen(s)

IntSlice_Less(s, i, j) == s[i] < s[j]

IntSlice_Exch(s, i, j) == [s EXCEPT ![i] = s[j], ![j] = s[i]]

IntSlice_Get(s, i) == s[i]

IntSlice_Set(s, i, v) == [s EXCEPT ![i] = v]

\* a Sorter whose elements carry more than the key Less compares: key orders,
\* tag tells two elements of equal key apart
KeyedSlice_Less(s, i, j) == s[i].key < s[j].key

\* a call of Less through the interface value runs the dynamic type's method
Sorter_Less(s, i, j) ==
    IF sorter = "KeyedSlice" THEN KeyedSlice_Less(s, i, j) ELSE IntSlice_Less(s, i, j)

\* ------------------------------------------------- SelectionSort
\* the inner loop: the index of the minimum, or -1 after an out-of-range access
RECURSIVE SelectionSort_min(_, _, _, _)
SelectionSort_min(data, j, min, n) ==
    IF j < n
    THEN IF ~InBounds(data, j, min)
         THEN -1
         ELSE SelectionSort_min(data, j + 1,
                                IF IntSlice_Less(data, j, min) THEN j ELSE min, n)
    ELSE min

RECURSIVE SelectionSort_loop(_, _, _)
SelectionSort_loop(data, i, n) ==
    IF i < n
    THEN LET min == SelectionSort_min(data, i + 1, i, n)
         IN  IF min = -1 \/ ~InBounds(data, i, min)
             THEN Panic(data)
             ELSE SelectionSort_loop(IntSlice_Exch(data, i, min), i + 1, n)
    ELSE Ok(data)

SelectionSort(data) == SelectionSort_loop(data, 0, IntSlice_Len(data))

\* ------------------------------------------------- InsertionSort
\* for j := i; j > lo && data.Less(j, j-1); j-- { data.Exch(j, j-1) }
RECURSIVE insertionSort_inner(_, _, _)
insertionSort_inner(data, j, lo) ==
    IF j > lo
    THEN IF ~InBounds(data, j, j - 1)
         THEN Panic(data)
         ELSE IF IntSlice_Less(data, j, j - 1)
              THEN insertionSort_inner(IntSlice_Exch(data, j, j - 1), j - 1, lo)
              ELSE Ok(data)
    ELSE Ok(data)

\* for i := lo; i <= hi; i++
RECURSIVE insertionSort_loop(_, _, _, _)
insertionSort_loop(data, i, lo, hi) ==
    IF i <= hi
    THEN LET r == insertionSort_inner(data, i, lo)
         IN  IF r.ok THEN insertionSort_loop(r.a, i + 1, lo, hi) ELSE r
    ELSE Ok(data)

insertionSort(data, lo, hi) == insertionSort_loop(data, lo, lo, hi)

InsertionSort(data) == insertionSort(data, 0, IntSlice_Len(data))

\* ------------------------------------------------- ShellSort
\* an increment loop that also steps when h equals N/3
RECURSIVE ShellSort_gap_Inclusive(_, _)
ShellSort_gap_Inclusive(h, n) ==
    IF h <= n \div 3 THEN ShellSort_gap_Inclusive(3 * h + 1, n) ELSE h

\* for h < N/3 { h = 3*h + 1 }
RECURSIVE ShellSort_gap(_, _)
ShellSort_gap(h, n) == IF h < n \div 3 THEN ShellSort_gap(3 * h + 1, n) ELSE h

\* for j := i; j >= h && data.Less(j, j-h); j -= h { data.Exch(j, j-h) }
RECURSIVE ShellSort_inner(_, _, _)
ShellSort_inner(data, j, h) ==
    IF j >= h
    THEN IF ~InBounds(data, j, j - h)
         THEN Panic(data)
         ELSE IF IntSlice_Less(data, j, j - h)
              THEN ShellSort_inner(IntSlice_Exch(data, j, j - h), j - h, h)
              ELSE Ok(data)
    ELSE Ok(data)

\* for i := h; i < N; i++
RECURSIVE ShellSort_pass(_, _, _, _)
ShellSort_pass(data, i, h, n) ==
    IF i < n
    THEN LET r == ShellSort_inner(data, i, h)
         IN  IF r.ok THEN ShellSort_pass(r.a, i + 1, h, n) ELSE r
    ELSE Ok(data)

\* for h >= 1 { ...; h = h / 3 }; gaps lists the h of each pass, in order
RECURSIVE ShellSort_loop(_, _, _)
ShellSort_loop(data, h, n) ==
    IF h >= 1
    THEN LET r == ShellSort_pass(data, h, h, n)
         IN  IF r.ok
             THEN LET rest == ShellSort_loop(r.a, h \div 3, n)
                  IN  [rest EXCEPT !.gaps = <<h>> \o @]
             ELSE [ok |-> FALSE, a |-> r.a, gaps |-> <<h>>]
    ELSE [ok |-> TRUE, a |-> data, gaps |-> << >>]

ShellSort(data) ==
    ShellSort_loop(data, ShellSort_gap(1, IntSlice_Len(data)), IntSlice_Len(data))

\* ------------------------------------------------- MergeSort
\* mergeSort and merge work on two slices; their outcome carries both
Ok2(src, dst) == [ok |-> TRUE, src |-> src, dst |-> dst]

Panic2(src, dst) == [ok |-> FALSE, src |-> src, dst |-> dst]

\* merge with the comparison turned round: on a tie the right run gives first
RECURSIVE merge_loop_RightOnTie(_, _, _, _, _, _, _)
merge_loop_RightOnTie(src, dst, k, i, j, mid, hi) ==
    IF k <= hi
    THEN IF i > mid
         THEN IF ~InBounds(src, j, j) \/ ~InBounds(dst, k, k)
              THEN Panic2(src, dst)
              ELSE merge_loop_RightOnTie(src, IntSlice_Set(dst, k, IntSlice_Get(src, j)),
                              k + 1, i, j + 1, mid, hi)
         ELSE IF j > hi
         THEN IF ~InBounds(src, i, i) \/ ~InBounds(dst, k, k)
              THEN Panic2(src, dst)
              ELSE merge_loop_RightOnTie(src, IntSlice_Set(dst, k, IntSlice_Get(src, i)),
                              k + 1, i + 1, j, mid, hi)
         ELSE IF ~InBounds(src, j, i) \/ ~InBounds(dst, k, k)
         THEN Panic2(src, dst)
         ELSE IF ~Sorter_Less(src, i, j)
         THEN merge_loop_RightOnTie(src, IntSlice_Set(dst, k, IntSlice_Get(src, j)),
                         k + 1, i, j + 1, mid, hi)
         ELSE merge_loop_RightOnTie(src, IntSlice_Set(dst, k, IntSlice_Get(src, i)),
                         k + 1, i + 1, j, mid, hi)
    ELSE Ok2(src, dst)

\* for k := lo; k <= hi; k++ { ... }, i and j the heads of the two runs
RECURSIVE merge_loop(_, _, _, _, _, _, _)
merge_loop(src, dst, k, i, j, mid, hi) ==
    IF k <= hi
    THEN IF i > mid
         THEN IF ~InBounds(src, j, j) \/ ~InBounds(dst, k, k)
              THEN Panic2(src, dst)
              ELSE merge_loop(src, IntSlice_Set(dst, k, IntSlice_Get(src, j)),
                              k + 1, i, j + 1, mid, hi)
         ELSE IF j > hi
         THEN IF ~InBounds(src, i, i) \/ ~InBounds(dst, k, k)
              THEN Panic2(src, dst)
              ELSE merge_loop(src, IntSlice_Set(dst, k, IntSlice_Get(src, i)),
                              k + 1, i + 1, j, mid, hi)
         ELSE IF ~InBounds(src, j, i) \/ ~InBounds(dst, k, k)
         THEN Panic2(src, dst)
         ELSE IF Sorter_Less(src, j, i)
         THEN merge_loop(src, IntSlice_Set(dst, k, IntSlice_Get(src, j)),
                         k + 1, i, j + 1, mid, hi)
         ELSE merge_loop(src, IntSlice_Set(dst, k, IntSlice_Get(src, i)),
                         k + 1, i + 1, j, mid, hi)
    ELSE Ok2(src, dst)

merge(src, dst, lo, mid, hi) == merge_loop(src, dst, lo, lo, mid + 1, mid, hi)

\* if !src.Less(mid+1, mid) { for i := lo; i <= hi; i++ { dst.Set(i, src.Get(i)); return } }
\* the return sits inside the loop body: the first iteration ends the call
mergeSort_earlyExit(src, dst, lo, hi) ==
    IF lo <= hi
    THEN IF ~InBounds(src, lo, lo) \/ ~InBounds(dst, lo, lo)
         THEN Panic2(src, dst)
         ELSE Ok2(src, IntSlice_Set(dst, lo, IntSlice_Get(src, lo)))
    ELSE merge(src, dst, lo, lo + (hi - lo) \div 2, hi)

RECURSIVE mergeSort(_, _, _, _)
mergeSort(src, dst, lo, hi) ==
    IF hi <= lo + Cutoff
    THEN LET r == insertionSort(dst, lo, hi)
         IN  [ok |-> r.ok, src |-> src, dst |-> r.a]
    ELSE LET mid == lo + (hi - lo) \div 2
             \* mergeSort(dst, src, lo, mid): the roles are swapped in the callee
             r1 == mergeSort(dst, src, lo, mid)
         IN  IF ~r1.ok
             THEN Panic2(r1.dst, r1.src)
             ELSE LET r2 == mergeSort(r1.src, r1.dst, mid + 1, hi)
                      src2 == r2.dst
                      dst2 == r2.src
                  IN  IF ~r2.ok
                      THEN Panic2(src2, dst2)
                      ELSE IF ~InBounds(src2, mid + 1, mid)
                      THEN Panic2(src2, dst2)
                      ELSE IF ~IntSlice_Less(src2, mid + 1, mid)
                      THEN mergeSort_earlyExit(src2, dst2, lo, hi)
                      ELSE merge(src2, dst2, lo, mid, hi)

\* aux is a copy of data; mergeSort(aux, data, 0, data.Len()-1) sorts into data
MergeSort(data) ==
    LET r == mergeSort(data, data, 0, IntSlice_Len(data) - 1)
    IN  [ok |-> r.ok, a |-> r.dst]

\* ------------------------------------------------- QuickSort
\* for { i++; if !data.Less(i, v) || i == hi { break } }: the final i, or -1
\* after an out-of-range access
\* the scan from the left without its i == hi test
RECURSIVE partition_scanI_NoBound(_, _, _, _)
partition_scanI_NoBound(data, i, v, hi) ==
    IF ~InBounds(data, i + 1, v)
    THEN -1
    ELSE IF ~IntSlice_Less(data, i + 1, v)
         THEN i + 1
         ELSE partition_scanI_NoBound(data, i + 1, v, hi)

RECURSIVE partition_scanI(_, _, _, _)
partition_scanI(data, i, v, hi) ==
    IF ~InBounds(data, i + 1, v)
    THEN -1
    ELSE IF ~IntSlice_Less(data, i + 1, v) \/ i + 1 = hi
         THEN i + 1
         ELSE partition_scanI(data, i + 1, v, hi)

\* for { j--; if !data.Less(v, j) || j == lo { break } }
RECURSIVE partition_scanJ(_, _, _, _)
partition_scanJ(data, j, v, lo) ==
    IF ~InBounds(data, v, j - 1)
    THEN -1
    ELSE IF ~IntSlice_Less(data, v, j - 1) \/ j - 1 = lo
         THEN j - 1
         ELSE partition_scanJ(data, j - 1, v, lo)

\* touched collects the indices handed to Less and Exch: each scan hands over
\* v and every index it steps on, up to the one it stops at
RECURSIVE partition_loop(_, _, _, _, _)
partition_loop(data, i, j, lo, hi) ==
    LET i2 == partition_scanI(data, i, lo, hi)
        j2 == IF i2 = -1 THEN -1 ELSE partition_scanJ(data, j, lo, lo)
    IN  IF i2 = -1 \/ j2 = -1
        THEN [ok |-> FALSE, a |-> data, j |-> -1, touched |-> {}]
        ELSE LET seen == {lo} \cup ((i + 1) .. i2) \cup (j2 .. (j - 1))
             IN  IF i2 >= j2
                 THEN IF ~InBounds(data, lo, j2)
                      THEN [ok |-> FALSE, a |-> data, j |-> -1, touched |-> seen]
                      ELSE [ok |-> TRUE, a |-> IntSlice_Exch(data, lo, j2), j |-> j2,
                            touched |-> seen]
                 ELSE LET r == partition_loop(IntSlice_Exch(data, i2, j2), i2, j2, lo, hi)
                      IN  [r EXCEPT !.touched = @ \cup seen]

\* the pivot v is the index lo, not the key at lo
partition(data, lo, hi) == partition_loop(data, lo, hi + 1, lo, hi)

RECURSIVE quickSort(_, _, _)
quickSort(data, lo, hi) ==
    IF hi <= lo
    THEN Ok(data)
    ELSE LET pr == partition(data, lo, hi)
         IN  IF ~pr.ok
             THEN Panic(pr.a)
             ELSE LET left == quickSort(pr.a, lo, pr.j - 1)
                  IN  IF ~left.ok THEN left ELSE quickSort(left.a, pr.j + 1, hi)

QuickSort(data) == quickSort(data, 0, IntSlice_Len(data) - 1)

\* ------------------------------------------------- the sort driver
SortTypes == {"selection", "insertion", "shell", "merge", "quick", "bogus"}

\* the outcome of GetSortFunc(sortType)(data)
GetSortFunc(st, data) ==
    CASE st = "insertion" -> InsertionSort(data)
      [] st = "selection" -> SelectionSort(data)
      [] st = "shell" -> ShellSort(data)
      [] st = "merge" -> MergeSort(data)
      [] st = "quick" -> QuickSort(data)
      [] OTHER -> SelectionSort(data)

ShortInputs == UNION {[0 .. (n - 1) -> 1 .. MaxVal] : n \in 0 .. MaxLen}

\* two keys give every outcome of a comparison: less, equal, greater
LongKeys == {1, 2}

LongInputs == UNION {[0 .. (n - 1) -> LongKeys] : n \in (Cutoff + 2) .. (Cutoff + 1 + MaxLong)}

NoArgs == [lo |-> 0, mid |-> 0, hi |-> 0]

NoRet == << >>

\* a whole-slice call on an IntSlice: no index arguments, nothing returned yet
CallOff ==
    /\ sorter = "IntSlice"
    /\ args = NoArgs
    /\ ret = NoRet

SortOff ==
    /\ sortpc = "off"
    /\ sortType = "selection"
    /\ input = EmptyArr
    /\ output = EmptyArr
    /\ CallOff

UFOff ==
    /\ ufpc = "off"
    /\ N = 0
    /\ qf = NewUnionQuickFind
    /\ qu = NewUnionQuickFind
    /\ wqu = NewWeightedQuickUnion
    /\ rel = {}
    /\ last = NoCall

PipeOff ==
    /\ prog = "off"
    /\ ufType = "weighted"
    /\ uf = NewWeightedQuickUnion
    /\ tokens = << >>
    /\ pos = 0
    /\ ppc = "done"
    /\ val = 0
    /\ chClosed = FALSE
    /\ closes = 0
    /\ cpc = "done"
    /\ regP = 0
    /\ received = << >>
    /\ connCalls = << >>
    /\ unionCalls = << >>

InitSort ==
    /\ sortpc = "unsorted"
    /\ sortType \in SortTypes
    /\ input \in ShortInputs \cup LongInputs
    /\ output = input
    /\ CallOff
    /\ UFOff
    /\ PipeOff

\* sort := GetSortFunc(sortType); sort(data)
DoSort ==
    /\ sortpc = "unsorted"
    /\ LET r == GetSortFunc(sortType, input)
       IN  /\ sortpc' = IF r.ok THEN "returned" ELSE "panicked"
           /\ output' = r.a
           /\ ret' = IF "gaps" \in DOMAIN r THEN r.gaps ELSE NoRet
    /\ UNCHANGED <<sortType, input, sorter, args, ufvars, pipevars>>

NextSort == DoSort

SpecSort == InitSort /\ [][NextSort]_vars

\* ------------------------------------------------- merge on its own
\* slices of keyed elements, the tag of an element being the index it starts at
KeyedSlices == UNION {{[i \in 0 .. (n - 1) |-> [key |-> ks[i], tag |-> i]] :
                           ks \in [0 .. (n - 1) -> 1 .. MaxVal]} : n \in 1 .. MaxMerge}

Blank == [key |-> 0, tag |-> -1]

RunSorted(s, a, b) == \A k \in a .. (b - 1) : ~KeyedSlice_Less(s, k + 1, k)

\* merge(src, dst, lo, mid, hi) as mergeSort calls it: src[lo..mid] and
\* src[mid+1..hi] are sorted runs, either of which may be empty
InitMerge ==
    /\ sortpc = "merging"
    /\ sortType = "merge"
    /\ sorter = "KeyedSlice"
    /\ input \in KeyedSlices
    /\ output = [k \in DOMAIN input |-> Blank]
    /\ args \in [lo : 0 .. (MaxMerge - 1), mid : -1 .. (MaxMerge - 1), hi : 0 .. (MaxMerge - 1)]
    /\ args.lo <= args.mid + 1
    /\ args.mid <= args.hi
    /\ args.hi < ArrLen(input)
    /\ RunSorted(input, args.lo, args.mid)
    /\ RunSorted(input, args.mid + 1, args.hi)
    /\ ret = NoRet
    /\ UFOff
    /\ PipeOff

DoMerge ==
    /\ sortpc = "merging"
    /\ LET r == merge(input, output, args.lo, args.mid, args.hi)
       IN  /\ sortpc' = IF r.ok THEN "returned" ELSE "panicked"
           /\ input' = r.src
           /\ output' = r.dst
    /\ UNCHANGED <<sortType, callvars, ufvars, pipevars>>

NextMerge == DoMerge

SpecMerge == InitMerge /\ [][NextMerge]_vars

\* ------------------------------------------------- quickSort's body on its own
\* quickSort(data, lo, hi) with lo < hi, on every slice of 2 to MaxPart keys
InitQuick ==
    /\ sortpc = "partitioning"
    /\ sortType = "quick"
    /\ sorter = "IntSlice"
    /\ input \in UNION {[0 .. (n - 1) -> 1 .. MaxVal] : n \in 2 .. MaxPart}
    /\ output = input
    /\ args \in [lo : 0 .. (MaxPart - 1), mid : {0}, hi : 0 .. (MaxPart - 1)]
    /\ args.lo < args.hi
    /\ args.hi < ArrLen(input)
    /\ ret = NoRet
    /\ UFOff
    /\ PipeOff

\* j := partition(data, lo, hi)
DoPartition ==
    /\ sortpc = "partitioning"
    /\ LET r == partition(output, args.lo, args.hi)
       IN  /\ sortpc' = IF r.ok THEN "partitioned" ELSE "panicked"
           /\ output' = r.a
           /\ ret' = [j |-> r.j, touched |-> r.touched]
    /\ UNCHANGED <<sortType, input, sorter, args, ufvars, pipevars>>

\* quickSort(data, lo, j-1); quickSort(data, j+1, hi)
DoRecurse ==
    /\ sortpc = "partitioned"
    /\ LET left == quickSort(output, args.lo, ret.j - 1)
           right == IF left.ok THEN quickSort(left.a, ret.j + 1, args.hi) ELSE left
       IN  /\ sortpc' = IF right.ok THEN "returned" ELSE "panicked"
           /\ output' = right.a
    /\ UNCHANGED <<sortType, input, callvars, ufvars, pipevars>>

NextQuick ==
    \/ DoPartition
    \/ DoRecurse

SpecQuick == InitQuick /\ [][NextQuick]_vars

\* ------------------------------------------------- the engine's operations
Init ==
    /\ ufpc = "new"
    /\ N \in 0 .. MaxN
    /\ qf = NewUnionQuickFind
    /\ qu = NewUnionQuickFind
    /\ wqu = NewWeightedQuickUnion
    /\ rel = {}
    /\ last = NoCall
    /\ SortOff
    /\ PipeOff

\* uf.Init(sites), on one engine of each variant
DoInit ==
    /\ ufpc = "new"
    /\ ufpc' = "ready"
    /\ qf' = UnionQuickFind_Init(qf, N)
    /\ qu' = QuickUnionFind_Init(qu, N)
    /\ wqu' = WeightedQuickUnion_Init(wqu, N)
    /\ rel' = {<<i, i>> : i \in Sites}
    /\ UNCHANGED <<N, last, sortvars, callvars, pipevars>>

\* uf.Union(p, q) for sites in range, on one engine of each variant
DoUnion(p, q) ==
    /\ ufpc = "ready"
    /\ qf' = UnionQuickFind_Union(qf, p, q)
    /\ qu' = QuickUnionFind_Union(qu, p, q)
    /\ wqu' = WeightedQuickUnion_Union(wqu, p, q)
    /\ rel' = AddPair(rel, Sites, p, q)
    /\ last' = [p |-> p, q |-> q]
    /\ UNCHANGED <<ufpc, N, sortvars, callvars, pipevars>>

\* the indices next to the valid ones, on either side
OutOfRange == {-1, N}

\* uf.Union(p, q) with p or q out of range: the call panics in every variant,
\* and the engines are left as the panic found them
DoUnionOutOfRange(p, q) ==
    /\ ufpc \in {"new", "ready"}
    /\ p \in OutOfRange \/ q \in OutOfRange
    /\ ufpc' = "panicked"
    /\ qf' = UnionQuickFind_Union(qf, p, q)
    /\ qu' = QuickUnionFind_Union(qu, p, q)
    /\ wqu' = WeightedQuickUnion_Union(wqu, p, q)
    /\ UNCHANGED <<N, rel, last, sortvars, callvars, pipevars>>

Next ==
    \/ DoInit
    \/ \E p \in Sites, q \in Sites : DoUnion(p, q)
    \/ \E p \in Sites \cup OutOfRange, q \in Sites \cup OutOfRange : DoUnionOutOfRange(p, q)

Spec == Init /\ [][Next]_vars

\* ================================================================ the token pipeline
\* a whitespace-delimited token: an integer literal of value v, or some other text
Tok(k) == [int |-> TRUE, v |-> k]

BadTok == [int |-> FALSE, v |-> 0]

\* strconv.ParseInt(text, 10, 32): the value, or 0 and an error
strconv_ParseInt(t) ==
    IF t.int THEN [val |-> t.v, err |-> FALSE] ELSE [val |-> 0, err |-> TRUE]

UFTypes == {"weighted", "quickfind", "quickunion"}

getFinder(t) ==
    CASE t = "weighted" -> NewWeightedQuickUnion
      [] t = "quickfind" -> NewUnionQuickFind
      [] t = "quickunion" -> NewUnionQuickFind

\* the UnionFinder interface: dynamic dispatch on the concrete type
UnionFinder_Init(t, UF, n) ==
    CASE t = "weighted" -> WeightedQuickUnion_Init(UF, n)
      [] t = "quickfind" -> UnionQuickFind_Init(UF, n)
      [] t = "quickunion" -> QuickUnionFind_Init(UF, n)

UnionFinder_Count(t, UF) ==
    CASE t = "weighted" -> WeightedQuickUnion_Count(UF)
      [] t = "quickfind" -> UnionQuickFind_Count(UF)
      [] t = "quickunion" -> QuickUnionFind_Count(UF)

UnionFinder_Connected(t, UF, p, q) ==
    CASE t = "weighted" -> WeightedQuickUnion_Connected(UF, p, q)
      [] t = "quickfind" -> UnionQuickFind_Connected(UF, p, q)
      [] t = "quickunion" -> QuickUnionFind_Connected(UF, p, q)

UnionFinder_Union(t, UF, p, q) ==
    CASE t = "weighted" -> WeightedQuickUnion_Union(UF, p, q)
      [] t = "quickfind" -> UnionQuickFind_Union(UF, p, q)
      [] t = "quickunion" -> QuickUnionFind_Union(UF, p, q)

TokenSeqs(T) == UNION {[1 .. n -> T] : n \in 0 .. MaxTokens}

\* a Go slice holding the elements of a sequence
SliceOf(sq) == [i \in 0 .. (Len(sq) - 1) |-> sq[i + 1]]

InitPipe ==
    /\ prog \in {"unionfind", "sort"}
    /\ IF prog = "unionfind"
       THEN /\ ufType \in UFTypes
            /\ N \in 0 .. MaxSites
            /\ uf = UnionFinder_Init(ufType, getFinder(ufType), N)
            /\ tokens \in TokenSeqs({Tok(k) : k \in 0 .. (MaxSites - 1)} \cup {BadTok})
            /\ SortOff
       ELSE /\ ufType = "weighted"
            /\ N = 0
            /\ uf = NewWeightedQuickUnion
            /\ tokens \in TokenSeqs({Tok(k) : k \in LongKeys})
            /\ sortpc = "reading"
            /\ sortType \in SortTypes
            /\ input = EmptyArr
            /\ output = EmptyArr
            /\ CallOff
    /\ pos = 0
    /\ ppc = "scan"
    /\ val = 0
    /\ chClosed = FALSE
    /\ closes = 0
    /\ cpc = "recvP"
    /\ regP = 0
    /\ received = << >>
    /\ connCalls = << >>
    /\ unionCalls = << >>
    /\ ufpc = "off"
    /\ qf = NewUnionQuickFind
    /\ qu = NewUnionQuickFind
    /\ wqu = NewWeightedQuickUnion
    /\ rel = {}
    /\ last = NoCall

\* main has returned: the process is over
MainReturned ==
    cpc = "done" /\ (prog = "unionfind" \/ sortpc \in {"returned", "panicked"})

\* neither log.Fatal nor a run-time panic has ended the process, and main is running
Alive == ppc # "fatal" /\ cpc # "panic" /\ ~MainReturned

\* close(ch): closing a closed channel panics
CloseChannel ==
    /\ chClosed' = TRUE
    /\ closes' = closes + 1
    /\ ppc' = IF chClosed THEN "panic" ELSE "done"
    /\ UNCHANGED <<pos, val>>

\* GetInt with the close moved into the loop, after the scan of the last token
Helper_GetInt_CloseEarly ==
    /\ prog = "unionfind"
    /\ ppc = "scan"
    /\ Alive
    /\ IF pos + 1 < Len(tokens)
       THEN LET r == strconv_ParseInt(tokens[pos + 1])
            IN  /\ pos' = pos + 1
                /\ ppc' = IF r.err THEN "fatal" ELSE "send"
                /\ val' = IF r.err THEN val ELSE r.val
                /\ UNCHANGED <<chClosed, closes>>
       ELSE CloseChannel
    /\ UNCHANGED <<prog, ufType, uf, tokens, cpc, regP, received, connCalls, unionCalls>>
    /\ UNCHANGED <<ufvars, sortvars, callvars>>

\* one turn of GetInt's loop, up to its send; or, at the end of the input, its close
Helper_GetInt ==
    /\ prog = "unionfind"
    /\ ppc = "scan"
    /\ Alive
    /\ IF pos < Len(tokens)
       THEN LET r == strconv_ParseInt(tokens[pos + 1])
            IN  /\ pos' = pos + 1
                /\ ppc' = IF r.err THEN "fatal" ELSE "send"
                /\ val' = IF r.err THEN val ELSE r.val
                /\ UNCHANGED <<chClosed, closes>>
       ELSE CloseChannel
    /\ UNCHANGED <<prog, ufType, uf, tokens, cpc, regP, received, connCalls, unionCalls>>
    /\ UNCHANGED <<ufvars, sortvars, callvars>>

\* one turn of GetString's loop, up to its send; or, at the end of the input, its close
Helper_GetString ==
    /\ prog = "sort"
    /\ ppc = "scan"
    /\ Alive
    /\ IF pos < Len(tokens)
       THEN /\ pos' = pos + 1
            /\ ppc' = "send"
            /\ val' = tokens[pos + 1].v
            /\ UNCHANGED <<chClosed, closes>>
       ELSE CloseChannel
    /\ UNCHANGED <<prog, ufType, uf, tokens, cpc, regP, received, connCalls, unionCalls>>
    /\ UNCHANGED <<ufvars, sortvars, callvars>>

\* a loop body whose pre-check asks Connected(p, p)
main_body_CheckPP(p, q) ==
    /\ connCalls' = Append(connCalls, <<p, q>>)
    /\ IF p \notin DOMAIN uf.id \/ q \notin DOMAIN uf.id
       THEN /\ cpc' = "panic"
            /\ UNCHANGED <<uf, unionCalls>>
       ELSE /\ cpc' = "recvP"
            /\ IF UnionFinder_Connected(ufType, uf, p, p)
               THEN UNCHANGED <<uf, unionCalls>>
               ELSE /\ uf' = UnionFinder_Union(ufType, uf, p, q)
                    /\ unionCalls' = Append(unionCalls, <<p, q>>)

\* the body of the union-find loop, once p and q are read
main_body(p, q) ==
    /\ connCalls' = Append(connCalls, <<p, q>>)
    /\ IF p \notin DOMAIN uf.id \/ q \notin DOMAIN uf.id
       THEN \* index out of range in Find: the process panics
            /\ cpc' = "panic"
            /\ UNCHANGED <<uf, unionCalls>>
       ELSE /\ cpc' = "recvP"
            /\ IF UnionFinder_Connected(ufType, uf, p, q)
               THEN UNCHANGED <<uf, unionCalls>>
               ELSE /\ uf' = UnionFinder_Union(ufType, uf, p, q)
                    /\ unionCalls' = Append(unionCalls, <<p, q>>)

\* for p := range intChan: the unbuffered send and this receive happen together
main_recvP ==
    /\ prog = "unionfind"
    /\ cpc = "recvP"
    /\ ppc = "send"
    /\ ~chClosed
    /\ Alive
    /\ regP' = val
    /\ received' = Append(received, val)
    /\ cpc' = "recvQ"
    /\ ppc' = "scan"
    /\ UNCHANGED <<prog, ufType, uf, tokens, pos, val, chClosed, closes, connCalls, unionCalls>>
    /\ UNCHANGED <<ufvars, sortvars, callvars>>

\* q := <-intChan with a sender waiting, then the loop body
main_recvQ ==
    /\ prog = "unionfind"
    /\ cpc = "recvQ"
    /\ ppc = "send"
    /\ ~chClosed
    /\ Alive
    /\ received' = Append(received, val)
    /\ ppc' = "scan"
    /\ main_body(regP, val)
    /\ UNCHANGED <<prog, ufType, tokens, pos, val, chClosed, closes, regP>>
    /\ UNCHANGED <<ufvars, sortvars, callvars>>

\* q := <-intChan on the closed channel yields the zero value; then the loop body
main_recvQClosed ==
    /\ prog = "unionfind"
    /\ cpc = "recvQ"
    /\ chClosed
    /\ Alive
    /\ main_body(regP, 0)
    /\ UNCHANGED <<prog, ufType, tokens, pos, ppc, val, chClosed, closes, regP, received>>
    /\ UNCHANGED <<ufvars, sortvars, callvars>>

\* the range loop ends on the closed channel; main prints Count() and returns
main_rangeEnd ==
    /\ prog = "unionfind"
    /\ cpc = "recvP"
    /\ chClosed
    /\ Alive
    /\ cpc' = "done"
    /\ UNCHANGED <<prog, ufType, uf, tokens, pos, ppc, val, chClosed, closes, regP,
                   received, connCalls, unionCalls>>
    /\ UNCHANGED <<ufvars, sortvars, callvars>>

\* for v := range strChan { data = append(data, v) }
sortMain_recv ==
    /\ prog = "sort"
    /\ cpc = "recvP"
    /\ ppc = "send"
    /\ ~chClosed
    /\ Alive
    /\ received' = Append(received, val)
    /\ ppc' = "scan"
    /\ UNCHANGED <<prog, ufType, uf, tokens, pos, val, chClosed, closes, cpc, regP,
                   connCalls, unionCalls>>
    /\ UNCHANGED <<ufvars, sortvars, callvars>>

\* the range loop ends on the closed channel; data is what sort will be called on
sortMain_rangeEnd ==
    /\ prog = "sort"
    /\ cpc = "recvP"
    /\ chClosed
    /\ Alive
    /\ cpc' = "done"
    /\ sortpc' = "unsorted"
    /\ input' = SliceOf(received)
    /\ output' = SliceOf(received)
    /\ UNCHANGED <<sortType, prog, ufType, uf, tokens, pos, ppc, val, chClosed, closes, regP,
                   received, connCalls, unionCalls>>
    /\ UNCHANGED <<ufvars, callvars>>

NextPipe ==
    \/ Helper_GetInt
    \/ Helper_GetString
    \/ main_recvP
    \/ main_recvQ
    \/ main_recvQClosed
    \/ main_rangeEnd
    \/ sortMain_recv
    \/ sortMain_rangeEnd
    \/ DoSort

SpecPipe == InitPipe /\ [][NextPipe]_vars

\* ------------------------------------------------- the union-find driver on integer input
\* the union-find program alone, on inputs whose tokens are all integers
InitDriver ==
    /\ prog = "unionfind"
    /\ ufType \in UFTypes
    /\ N \in 0 .. MaxDriverSites
    /\ uf = UnionFinder_Init(ufType, getFinder(ufType), N)
    /\ tokens \in UNION {[1 .. n -> {Tok(k) : k \in 0 .. (MaxDriverSites - 1)}] :
                             n \in 0 .. MaxDriverTokens}
    /\ SortOff
    /\ pos = 0
    /\ ppc = "scan"
    /\ val = 0
    /\ chClosed = FALSE
    /\ closes = 0
    /\ cpc = "recvP"
    /\ regP = 0
    /\ received = << >>
    /\ connCalls = << >>
    /\ unionCalls = << >>
    /\ ufpc = "off"
    /\ qf = NewUnionQuickFind
    /\ qu = NewUnionQuickFind
    /\ wqu = NewWeightedQuickUnion
    /\ rel = {}
    /\ last = NoCall

NextDriver ==
    \/ Helper_GetInt
    \/ main_recvP
    \/ main_recvQ
    \/ main_recvQClosed
    \/ main_rangeEnd

SpecDriver == InitDriver /\ [][NextDriver]_vars

\* ================================================================ claims
\* the three engines' counts, in the order qf, qu, wqu
Counts == <<UnionQuickFind_Count(qf), QuickUnionFind_Count(qu), WeightedQuickUnion_Count(wqu)>>

\* C1: Count() is N right after Init(N); a Union of two sites in different
\* components (of the reference partition) lowers each variant's Count() by
\* exactly 1, a Union of two sites in the same component leaves it unchanged,
\* and so Count() never increases.
C1_CountContract ==
    [][ /\ (ufpc = "new" /\ ufpc' = "ready") => Counts' = <<N', N', N'>>
        /\ (ufpc = "ready" /\ ufpc' = "ready") =>
              /\ \A v \in 1 .. 3 :
                    Counts'[v] = IF <<last'.p, last'.q>> \in rel
                                 THEN Counts[v] ELSE Counts[v] - 1
              /\ \A v \in 1 .. 3 : Counts'[v] <= Counts[v] ]_vars

\* two effective unions have happened and the latest call, Union(p, p), changed nothing
C1_Witness ==
    /\ ufpc = "ready"
    /\ N >= 3
    /\ Counts = <<N - 2, N - 2, N - 2>>
    /\ last.p >= 0
    /\ last.p = last.q

\* C2: for each variant, Connected(p, q) is true iff that variant's own
\* Find(p) equals that variant's own Find(q).
C2_ConnectedIffOwnFind ==
    ufpc = "ready" =>
        \A p \in Sites, q \in Sites :
            /\ UnionQuickFind_Connected(qf, p, q)
                  <=> (UnionQuickFind_Find(qf, p) = UnionQuickFind_Find(qf, q))
            /\ QuickUnionFind_Connected(qu, p, q)
                  <=> (QuickUnionFind_Find(qu, p) = QuickUnionFind_Find(qu, q))
            /\ WeightedQuickUnion_Connected(wqu, p, q)
                  <=> (WeightedQuickUnion_Find(wqu, p) = WeightedQuickUnion_Find(wqu, q))

\* C3: for each variant, Find(p) = Find(q) iff p and q are in the same class
\* of the reference partition (the equivalence closure of the Union pairs).
C3_FindMatchesPartition ==
    ufpc = "ready" =>
        \A p \in Sites, q \in Sites :
            /\ (UnionQuickFind_Find(qf, p) = UnionQuickFind_Find(qf, q))
                  <=> (<<p, q>> \in rel)
            /\ (QuickUnionFind_Find(qu, p) = QuickUnionFind_Find(qu, q))
                  <=> (<<p, q>> \in rel)
            /\ (WeightedQuickUnion_Find(wqu, p) = WeightedQuickUnion_Find(wqu, q))
                  <=> (<<p, q>> \in rel)

\* a class of three sites next to a site on its own, so both directions are exercised
C3_Witness ==
    /\ ufpc = "ready"
    /\ N = 4
    /\ \E a \in Sites, b \in Sites, c \in Sites, d \in Sites :
          /\ Cardinality({a, b, c, d}) = 4
          /\ {<<a, b>>, <<b, c>>} \subseteq rel
          /\ <<a, d>> \notin rel
          /\ QuickUnionFind_Find(qu, a) = QuickUnionFind_Find(qu, c)
          /\ qu.id[a] # qu.id[c]

\* C4: for each variant Connected(p, p) is true, Connected(p, q) equals
\* Connected(q, p), and after Union(a, b) followed by Union(b, c),
\* Connected(a, c) is true.
C4_ConnectedEquivalence ==
    [][ (ufpc' = "ready") =>
          /\ \A p \in Sites' :
                /\ UnionQuickFind_Connected(qf', p, p)
                /\ QuickUnionFind_Connected(qu', p, p)
                /\ WeightedQuickUnion_Connected(wqu', p, p)
          /\ \A p \in Sites', q \in Sites' :
                /\ UnionQuickFind_Connected(qf', p, q) = UnionQuickFind_Connected(qf', q, p)
                /\ QuickUnionFind_Connected(qu', p, q) = QuickUnionFind_Connected(qu', q, p)
                /\ WeightedQuickUnion_Connected(wqu', p, q)
                      = WeightedQuickUnion_Connected(wqu', q, p)
          /\ (last.p >= 0 /\ last'.p = last.q) =>
                /\ UnionQuickFind_Connected(qf', last.p, last'.q)
                /\ QuickUnionFind_Connected(qu', last.p, last'.q)
                /\ WeightedQuickUnion_Connected(wqu', last.p, last'.q) ]_vars

\* C5: on the same N and the same sequence of unions the three variants
\* return the same Count() and the same Connected(p, q) for every pair of
\* sites, after every prefix of the sequence.
C5_VariantsAgree ==
    ufpc = "ready" =>
        /\ UnionQuickFind_Count(qf) = QuickUnionFind_Count(qu)
        /\ UnionQuickFind_Count(qf) = WeightedQuickUnion_Count(wqu)
        /\ \A p \in Sites, q \in Sites :
              /\ UnionQuickFind_Connected(qf, p, q) = QuickUnionFind_Connected(qu, p, q)
              /\ UnionQuickFind_Connected(qf, p, q) = WeightedQuickUnion_Connected(wqu, p, q)

\* number of sites on the path from site i up to its root
RECURSIVE Height(_, _)
Height(UF, i) == IF UF.id[i] = i THEN 1 ELSE 1 + Height(UF, UF.id[i])

RECURSIVE Log2Floor(_)
Log2Floor(n) == IF n < 2 THEN 0 ELSE 1 + Log2Floor(n \div 2)

\* C7: in a WeightedQuickUnion no tree is higher than floor(log2(N)) + 1,
\* the height being the number of sites on the longest path up to the root.
C7_WeightedHeightBound ==
    ufpc = "ready" =>
        \A i \in Sites : Height(wqu, i) <= Log2Floor(N) + 1

\* a weighted tree that reaches the bound while quick-union's chain on the same
\* unions is higher than it
C7_Witness ==
    /\ ufpc = "ready"
    /\ N >= 3
    /\ \E i \in Sites : Height(wqu, i) = Log2Floor(N) + 1
    /\ \E i \in Sites : Height(qu, i) > Log2Floor(N) + 1
\* ---------------------------------------------------------------- sort claims
Sorted(a) == \A i \in DOMAIN a, j \in DOMAIN a : i < j => a[i] <= a[j]

\* b holds the same keys as a, each as often as a does
Permutation(a, b) ==
    /\ DOMAIN a = DOMAIN b
    /\ \A v \in {a[i] : i \in DOMAIN a} \cup {b[i] : i \in DOMAIN b} :
          Cardinality({i \in DOMAIN a : a[i] = v}) = Cardinality({i \in DOMAIN b : b[i] = v})

\* C8: each of the five sorts returns normally on every input and leaves a
\* permutation of the input that is non-decreasing under Less.
C8_SortsSortEveryInput ==
    sortpc # "unsorted" =>
        /\ sortpc = "returned"
        /\ Permutation(input, output)
        /\ Sorted(output)

\* mergeSort as it would be with the early exit taken out: merge is always called
RECURSIVE mergeSort_alwaysMerge(_, _, _, _)
mergeSort_alwaysMerge(src, dst, lo, hi) ==
    IF hi <= lo + Cutoff
    THEN LET r == insertionSort(dst, lo, hi)
         IN  [ok |-> r.ok, src |-> src, dst |-> r.a]
    ELSE LET mid == lo + (hi - lo) \div 2
             r1 == mergeSort_alwaysMerge(dst, src, lo, mid)
             r2 == mergeSort_alwaysMerge(r1.src, r1.dst, mid + 1, hi)
         IN  merge(r2.dst, r2.src, lo, mid, hi)

\* C9: MergeSort's early exit does not change the output: MergeSort leaves
\* the sequence that a mergeSort which always calls merge leaves.
C9_EarlyExitSameOutput ==
    (sortpc = "returned" /\ sortType = "merge") =>
        output = mergeSort_alwaysMerge(input, input, 0, IntSlice_Len(input) - 1).dst
\* ---------------------------------------------------------------- pipeline claims
\* the integers the tokens stand for, in order
ValuesOf(toks) == [i \in 1 .. Len(toks) |-> toks[i].v]

\* the consecutive pairs of a sequence of integers, an odd last one left out
PairsOf(vals) == [k \in 1 .. (Len(vals) \div 2) |-> <<vals[2 * k - 1], vals[2 * k]>>]

\* the engine after the driver's loop body has run on each pair in turn
RECURSIVE AfterPairs(_, _, _)
AfterPairs(t, UF, pairs) ==
    IF pairs = << >>
    THEN UF
    ELSE LET p == Head(pairs)[1]
             q == Head(pairs)[2]
         IN  AfterPairs(t,
                        IF UnionFinder_Connected(t, UF, p, q)
                        THEN UF ELSE UnionFinder_Union(t, UF, p, q),
                        Tail(pairs))

\* C6: when the integers after the site count are odd in number, the last one
\* causes no Connected or Union call, so the partition and the reported
\* Count() are those of the input without that integer.
C6_TrailingIntegerDropped ==
    (prog = "unionfind" /\ cpc = "done" /\ Len(tokens) % 2 = 1) =>
        LET front == SubSeq(ValuesOf(tokens), 1, Len(tokens) - 1)
            ref == AfterPairs(ufType, UnionFinder_Init(ufType, getFinder(ufType), N),
                              PairsOf(front))
        IN  /\ connCalls = PairsOf(front)
            /\ uf.id = ref.id
            /\ UnionFinder_Count(ufType, uf) = UnionFinder_Count(ufType, ref)

\* the channel protocol: at most one close, none before every token has been
\* received, and no send on (nor second close of) the closed channel
ChannelProtocol ==
    /\ closes <= 1
    /\ chClosed = (closes > 0)
    /\ chClosed => (pos = Len(tokens) /\ Len(received) = Len(tokens))
    /\ ~(ppc = "send" /\ chClosed)
    /\ ppc # "panic"

\* the producer has returned after its one close and the consumer's loop has ended
BothFinished == closes = 1 /\ ppc = "done" /\ cpc = "done"

\* log.Fatal in GetInt, or an index-out-of-range panic in the consumer's loop body
Aborted == ppc = "fatal" \/ cpc = "panic"

\* C10 as claimed: the producer closes the channel exactly once, only after
\* every token has been received; the consumer's loop then ends, so on every
\* finite input both tasks finish, with no deadlock and no send on a closed channel.
C10_PipelineCompletes ==
    /\ ChannelProtocol
    /\ (~ENABLED NextPipe) => BothFinished

\* every step of the pipeline adds to this count, and the input bounds it
Progress ==
    pos + Len(received) + Len(connCalls) + closes
        + (IF cpc \in {"done", "panic"} THEN 1 ELSE 0)
        + (IF ppc = "fatal" THEN 1 ELSE 0)
        + (IF sortpc \in {"returned", "panicked"} THEN 1 ELSE 0)

\* C10, amended: the producer closes the channel at most once, only after
\* every token has been received, and never sends on the closed channel; on
\* every finite input the run ends (each step adds to a count the input
\* bounds, and no step is possible only at the end), either with the process
\* aborted (log.Fatal on a token that is not an integer, or the panic of a
\* site outside [0, N) in the union-find loop) or with the channel closed
\* exactly once and both tasks finished; the sort pipeline is never aborted.
C10_PipelineProtocol ==
    /\ [](/\ ChannelProtocol
          /\ (~ENABLED NextPipe) => (Aborted \/ BothFinished)
          /\ (prog = "sort") => ~Aborted
          /\ Progress <= 3 * Len(tokens) + 4)
    /\ [][Progress' > Progress]_vars

\* a union-find run that read a pair, made its Union call and finished
C10_Witness ==
    /\ prog = "unionfind"
    /\ BothFinished
    /\ ~Aborted
    /\ Len(received) = Len(tokens)
    /\ Len(unionCalls) = 1
    /\ ~ENABLED NextPipe
\* C11: tokens reach the consumer in input order, none lost, duplicated or
\* reordered: the k-th iteration of the union-find loop handles the pair made
\* of the (2k-1)-th and the 2k-th integer after the site count, and the sort
\* driver's collected sequence is the input token sequence.
C11_TokensInOrder ==
    /\ Len(received) <= Len(tokens)
    /\ received = SubSeq(ValuesOf(tokens), 1, Len(received))
    /\ (cpc = "done") => received = ValuesOf(tokens)
    /\ (prog = "unionfind") =>
          \A k \in 1 .. Len(connCalls) :
              /\ 2 * k <= Len(tokens)
              /\ connCalls[k] = <<ValuesOf(tokens)[2 * k - 1], ValuesOf(tokens)[2 * k]>>
    /\ (prog = "sort" /\ cpc = "done") => input = SliceOf(ValuesOf(tokens))

\* C12: called on two adjacent sorted runs src[lo..mid] and src[mid+1..hi],
\* merge returns normally and leaves in dst[lo..hi] a sorted arrangement of
\* exactly the elements of src[lo..hi]; elements of equal key keep their
\* order, and on a tie between the runs the left run's element comes first.
C12_MergeStable ==
    (sortType = "merge" /\ sortpc # "merging") =>
        /\ sortpc = "returned"
        /\ \A k \in args.lo .. (args.hi - 1) : output[k].key <= output[k + 1].key
        /\ {output[k] : k \in args.lo .. args.hi} = {input[k] : k \in args.lo .. args.hi}
        /\ \A a, b \in args.lo .. args.hi :
               (a < b /\ output[a].key = output[b].key) => output[a].tag < output[b].tag

\* a merge has run in which both runs held an element of the same key
C12_Witness ==
    /\ sortType = "merge"
    /\ sortpc = "returned"
    /\ \E a \in args.lo .. args.mid : \E b \in (args.mid + 1) .. args.hi :
           input[a].key = input[b].key

\* C13: in every variant Find of a site outside [0, N) panics instead of
\* returning a value, Connected with an out-of-range p or q panics, and a
\* Union with an out-of-range p or q panics before any write: id, sz and
\* count are as they were before the call.
C13_OutOfRangeRejected ==
    [][(ufpc' = "panicked") =>
          /\ \A s \in OutOfRange :
                /\ UnionQuickFind_Find_panics(qf, s)
                /\ QuickUnionFind_Find_panics(qu, s)
                /\ WeightedQuickUnion_Find_panics(wqu, s)
                /\ \A t \in Sites \cup OutOfRange :
                       /\ UnionQuickFind_Connected_panics(qf, s, t)
                       /\ UnionQuickFind_Connected_panics(qu, t, s)
                       /\ UnionQuickFind_Connected_panics(wqu, s, t)
                       /\ UnionQuickFind_Connected_panics(wqu, t, s)
          /\ qf' = qf
          /\ qu' = qu
          /\ wqu' = wqu]_vars

\* a Union with an index out of range was called on engines that had merged sites
C13_Witness ==
    /\ ufpc = "panicked"
    /\ N >= 3
    /\ DOMAIN wqu.sz = Sites
    /\ wqu.count < N
    /\ \E i \in Sites : wqu.sz[i] >= 2

\* the site reached from i by following k parent pointers
RECURSIVE Ancestor(_, _, _)
Ancestor(id, i, k) == IF k = 0 THEN i ELSE Ancestor(id, id[i], k - 1)

\* id maps the sites into the sites and every site reaches a self-loop within
\* N steps: the parent pointers form a forest, self-loops at the roots aside
Forest(id) ==
    /\ DOMAIN id = Sites
    /\ \A i \in Sites : id[i] \in Sites
    /\ \A i \in Sites : LET r == Ancestor(id, i, N) IN id[r] = r

\* C14: QuickUnionFind and WeightedQuickUnion, after Init(N) and any unions of
\* sites in range: every id[i] is a site, the parent pointers form a forest
\* whose only cycles are the roots' self-loops, and Find(p) returns, for every
\* site p, a site r with id[r] = r.
C14_ParentForest ==
    (ufpc = "ready") =>
        /\ Forest(qu.id)
        /\ Forest(wqu.id)
        /\ \A p \in Sites :
               /\ ~QuickUnionFind_Find_panics(qu, p)
               /\ qu.id[QuickUnionFind_Find(qu, p)] = QuickUnionFind_Find(qu, p)
               /\ ~WeightedQuickUnion_Find_panics(wqu, p)
               /\ wqu.id[WeightedQuickUnion_Find(wqu, p)] = WeightedQuickUnion_Find(wqu, p)

\* a quick-union tree three sites tall: Find has pointers to follow
C14_Witness ==
    /\ ufpc = "ready"
    /\ \E i \in Sites : qu.id[i] # i /\ qu.id[qu.id[i]] # qu.id[i]
    /\ \E i \in Sites : wqu.id[i] # i

\* the sites of the tree under root r
TreeOf(UF, r) == {i \in DOMAIN UF.id : WeightedQuickUnion_Find(UF, i) = r}

Roots(UF) == {i \in DOMAIN UF.id : UF.id[i] = i}

RECURSIVE SumOver(_, _)
SumOver(f, S) ==
    IF S = {} THEN 0 ELSE LET x == CHOOSE y \in S : TRUE IN f[x] + SumOver(f, S \ {x})

\* sz of every root is the size of its tree, and the roots' sizes sum to N
SizesExact(UF) ==
    /\ \A r \in Roots(UF) : UF.sz[r] = Cardinality(TreeOf(UF, r))
    /\ SumOver(UF.sz, Roots(UF)) = N

\* C15: WeightedQuickUnion: sz[r] of each root r is the number of sites whose
\* Find is r, so the roots' sizes sum to N; a Union that changes the engine
\* hangs the root whose sz is not larger than the other's under the other
\* root and adds the absorbed root's sz to the surviving root's sz.
C15_WeightedSizes ==
    [][ /\ (ufpc = "new" /\ ufpc' = "ready") => SizesExact(wqu')
        /\ (ufpc = "ready" /\ wqu' # wqu) =>
              /\ SizesExact(wqu')
              /\ \E a \in Roots(wqu), b \in Roots(wqu) :
                     /\ a # b
                     /\ {a, b} = {WeightedQuickUnion_Find(wqu, last'.p),
                                  WeightedQuickUnion_Find(wqu, last'.q)}
                     /\ wqu.sz[a] <= wqu.sz[b]
                     /\ wqu'.id = [wqu.id EXCEPT ![a] = b]
                     /\ wqu'.sz = [wqu.sz EXCEPT ![b] = wqu.sz[a] + wqu.sz[b]] ]_vars

\* trees of unequal size have been merged: a root of size 3 or more exists
C15_Witness ==
    /\ ufpc = "ready"
    /\ \E r \in Roots(wqu) : wqu.sz[r] >= 3
    /\ \E i \in Sites : wqu.id[i] # i /\ wqu.sz[i] = 2

\* C20: in every reachable state count is the number of components id
\* encodes: for UnionQuickFind the number of distinct values in id, every
\* value being its own label (id[id[i]] = id[i]); for QuickUnionFind and
\* WeightedQuickUnion the number of sites i with id[i] = i.
C20_CountMatchesId ==
    /\ UnionQuickFind_Count(qf) = Cardinality({qf.id[i] : i \in DOMAIN qf.id})
    /\ \A i \in DOMAIN qf.id : qf.id[i] \in DOMAIN qf.id /\ qf.id[qf.id[i]] = qf.id[i]
    /\ QuickUnionFind_Count(qu) = Cardinality(Roots(qu))
    /\ WeightedQuickUnion_Count(wqu) = Cardinality(Roots(wqu))

\* four or more sites have been merged down to two components in every variant
C20_Witness ==
    /\ ufpc = "ready"
    /\ N >= 4
    /\ UnionQuickFind_Count(qf) = 2
    /\ Cardinality(Roots(qu)) = 2
    /\ Cardinality(Roots(wqu)) = 2

\* the input is an even number of integers, all of them sites
EvenInRange ==
    /\ Len(tokens) % 2 = 0
    /\ \A i \in 1 .. Len(tokens) : tokens[i].int /\ tokens[i].v \in Sites

\* the connectivity of the graph on Sites whose edges are the given pairs
Connectivity(pairs) ==
    Closure({<<i, i>> : i \in Sites}
              \cup {<<pairs[k][1], pairs[k][2]>> : k \in 1 .. Len(pairs)}
              \cup {<<pairs[k][2], pairs[k][1]>> : k \in 1 .. Len(pairs)}, Sites)

NumComponents(R) == Cardinality({{b \in Sites : <<a, b>> \in R} : a \in Sites})

C17_InsertionSortInRange ==
    (sortType = "insertion" /\ sortpc \in {"returned", "panicked"} /\ ArrLen(input) >= 1) =>
        /\ sortpc = "returned"
        /\ Sorted(output)
        /\ Permutation(input, output)

\* the keys of a[lo..hi] with their multiplicities are those of b[lo..hi], and
\* the two slices agree outside the range
RangePermutation(a, b, lo, hi) ==
    /\ DOMAIN a = DOMAIN b
    /\ \A k \in DOMAIN a \ (lo .. hi) : a[k] = b[k]
    /\ \A v \in {a[k] : k \in lo .. hi} \cup {b[k] : k \in lo .. hi} :
          Cardinality({k \in lo .. hi : a[k] = v}) = Cardinality({k \in lo .. hi : b[k] = v})

\* C18: partition(data, lo, hi) with lo < hi returns, having handed only
\* indices of [lo, hi] to Less and Exch, a j in [lo, hi] such that the
\* element that was at lo is at j, nothing in data[lo..j-1] is greater than
\* data[j], nothing in data[j+1..hi] is less, and data[lo..hi] is a
\* permutation of what it was; the recursion of quickSort on [lo, j-1] and
\* [j+1, hi] then returns, leaving data[lo..hi] sorted.
C18_PartitionContract ==
    (sortType = "quick" /\ sortpc # "partitioning") =>
        /\ sortpc # "panicked"
        /\ ret.touched \subseteq args.lo .. args.hi
        /\ ret.j \in args.lo .. args.hi
        /\ RangePermutation(input, output, args.lo, args.hi)
        /\ output[ret.j] = input[args.lo]
        /\ \A k \in args.lo .. (ret.j - 1) : output[k] <= output[ret.j]
        /\ \A k \in (ret.j + 1) .. args.hi : output[k] >= output[ret.j]
        /\ (sortpc = "returned") =>
               \A k \in args.lo .. (args.hi - 1) : output[k] <= output[k + 1]

\* a range of three or more keys inside a longer slice has been partitioned
\* with keys on both sides of the pivot, and then sorted by the recursion
C18_Witness ==
    /\ sortType = "quick"
    /\ sortpc = "returned"
    /\ args.lo > 0
    /\ args.lo < ret.j
    /\ ret.j < args.hi
    /\ input # output

\* h is one of 1, 4, 13, 40, ...
RECURSIVE IsGap(_)
IsGap(h) == h = 1 \/ (h > 1 /\ (h - 1) % 3 = 0 /\ IsGap((h - 1) \div 3))

\* the gaps of the sequence up to the largest a slice of the model can call for
GapsUpTo(n) == {h \in 1 .. (n + 1) : IsGap(h)}

\* each pass after the first has the gap of the one before divided by 3, and
\* the last pass has gap 1
GapsDescend(gaps) ==
    /\ Len(gaps) >= 1
    /\ \A k \in 1 .. (Len(gaps) - 1) : gaps[k + 1] = gaps[k] \div 3
    /\ gaps[Len(gaps)] = 1

\* C19 as stated: ShellSort on N keys starts from the largest gap of
\* 1, 4, 13, 40, ... that is strictly less than N/3, then divides the gap by
\* 3 for each further pass, the last pass having gap 1.
C19_StartsBelowThird ==
    (sortType = "shell" /\ sortpc # "unsorted") =>
        LET n == ArrLen(input)
            below == {h \in GapsUpTo(n) : 3 * h < n}
        IN  /\ sortpc = "returned"
            /\ GapsDescend(ret)
            /\ (below # {}) => (ret[1] \in below /\ \A h \in below : h <= ret[1])

\* C19, amended: ShellSort on N keys starts from the smallest gap of
\* 1, 4, 13, 40, ... that is at least N/3 (integer division), then divides
\* the gap by 3 for each further pass, the last pass having gap 1.
C19_StartsAtThird ==
    (sortType = "shell" /\ sortpc # "unsorted") =>
        LET n == ArrLen(input)
        IN  /\ sortpc = "returned"
            /\ GapsDescend(ret)
            /\ IsGap(ret[1])
            /\ ret[1] >= n \div 3
            /\ \A h \in GapsUpTo(n) : h >= n \div 3 => ret[1] <= h

\* ShellSort has run on a slice long enough for a pass of gap 4
C19_Witness ==
    /\ sortType = "shell"
    /\ sortpc = "returned"
    /\ ret = <<4, 1>>
    /\ ArrLen(input) >= 9

====
